---- MODULE Spec2Model ----
(***************************************************************************)
(* Model of app.py: the Melody chat handler.  A Python str is a sequence   *)
(* of one-character strings; a fixed literal of the program that is only   *)
(* ever copied (a reply message, a URL) is a single symbol of that         *)
(* sequence.  None is the one-symbol sequence <<"None">>.                  *)
(***************************************************************************)
EXTENDS Integers, Sequences, FiniteSets, TLC

VARIABLES session, pc, response_text, mood, genre, playlist_text, songs,
          track_uris, spotify_url, reply, calls, pre,
          text_arg, ret

vars == <<session, pc, response_text, mood, genre, playlist_text, songs,
          track_uris, spotify_url, reply, calls, pre, text_arg, ret>>

handlerVars == <<session, pc, response_text, mood, genre, playlist_text, songs,
                 track_uris, spotify_url, reply, calls, pre>>

parseVars == <<text_arg, ret>>

(***************************************************************************)
(* Bounds                                                                  *)
(***************************************************************************)
\* number of lines of a text handed to extract_songs on its own
MaxLines == 2
\* number of lines of the playlist text the generation provider returns
MaxPlaylistLines == 2

(***************************************************************************)
(* Python str operations                                                   *)
(***************************************************************************)
None == <<"None">>

Digits == {"0", "1", "2", "3", "4", "5", "6", "7", "8", "9"}

Whitespace == {" ", "\n", "\t"}

UpperCase == <<"A","B","C","D","E","F","G","H","I","J","K","L","M",
               "N","O","P","Q","R","S","T","U","V","W","X","Y","Z">>

LowerCase == <<"a","b","c","d","e","f","g","h","i","j","k","l","m",
               "n","o","p","q","r","s","t","u","v","w","x","y","z">>

\* str.lower() on one character
lower_char(c) ==
    IF \E i \in 1..26 : UpperCase[i] = c
    THEN LowerCase[CHOOSE i \in 1..26 : UpperCase[i] = c]
    ELSE c

\* str.lower()
lower(s) == [i \in 1..Len(s) |-> lower_char(s[i])]

RECURSIVE lstrip(_)
lstrip(s) ==
    IF s # <<>> /\ Head(s) \in Whitespace THEN lstrip(Tail(s)) ELSE s

RECURSIVE rstrip(_)
rstrip(s) ==
    IF s # <<>> /\ s[Len(s)] \in Whitespace
    THEN rstrip(SubSeq(s, 1, Len(s) - 1))
    ELSE s

\* str.strip()
strip(s) == rstrip(lstrip(s))

\* does sub occur in s at position i
MatchAt(s, sub, i) ==
    /\ i + Len(sub) - 1 <= Len(s)
    /\ \A k \in 1..Len(sub) : s[i + k - 1] = sub[k]

\* str.find(): index of the first occurrence of sub in s, 0 when absent
find(s, sub) ==
    IF \E i \in 1..Len(s) : MatchAt(s, sub, i)
    THEN CHOOSE i \in 1..Len(s) :
            /\ MatchAt(s, sub, i)
            /\ \A j \in 1..(i - 1) : ~MatchAt(s, sub, j)
    ELSE 0

\* the `in` operator on two str
contains(s, sub) == find(s, sub) # 0

\* str.split(sep): left to right, non-overlapping, never empty
RECURSIVE split(_, _)
split(s, sep) ==
    LET i == find(s, sep) IN
    IF i = 0 THEN <<s>>
    ELSE <<SubSeq(s, 1, i - 1)>> \o split(SubSeq(s, i + Len(sep), Len(s)), sep)

\* str.join on a list of str
RECURSIVE join(_, _)
join(parts, sep) ==
    IF Len(parts) = 0 THEN <<>>
    ELSE IF Len(parts) = 1 THEN parts[1]
    ELSE parts[1] \o sep \o join(Tail(parts), sep)

NL == <<"\n">>
SEP == <<" ", "-", " ">>
DOTSP == <<".", " ">>

(***************************************************************************)
(* extract_songs                                                           *)
(***************************************************************************)
\* the loop of extract_songs over the remaining lines; parts[0].split(". ")[1]
\* raises IndexError when the first segment holds no ". "
RECURSIVE extract_lines(_, _)
extract_lines(lines, acc) ==
    IF lines = <<>> THEN [raised |-> FALSE, songs |-> acc]
    ELSE LET line == Head(lines) IN
         IF strip(line) # <<>> /\ line[1] \in Digits
         THEN LET parts == split(line, SEP) IN
              IF Len(parts) = 2
              THEN LET seg == split(parts[1], DOTSP) IN
                   IF Len(seg) < 2
                   THEN [raised |-> TRUE, songs |-> <<>>]
                   ELSE extract_lines(Tail(lines),
                            Append(acc, <<strip(seg[2]), strip(parts[2])>>))
              ELSE extract_lines(Tail(lines), acc)
         ELSE extract_lines(Tail(lines), acc)

extract_songs(text) == extract_lines(split(text, NL), <<>>)

(***************************************************************************)
(* Input texts of the parser                                               *)
(***************************************************************************)
Lines == {
    <<"1", ".", " ", "a", " ", "-", " ", "b">>,
    <<"2", ".", " ", "c", " ", "-", " ", "d">>,
    <<"1", "0", ".", " ", "e", " ", "-", " ", "f">>,
    <<"3", ".", " ", "g", ".", " ", "h", " ", "-", " ", "i">>,
    <<"4", ".", " ", " ", "j", " ", " ", "-", " ", " ", "k", " ">>,
    <<"a", " ", "-", " ", "b">>,
    <<"1", ".", " ", "a">>,
    <<"1", ".", " ", "a", " ", "-", " ", "b", " ", "-", " ", "c">>,
    <<"1", ")", " ", "a", " ", "-", " ", "b">>,
    <<"1", ".", "a", " ", "-", " ", "b">>,
    <<" ", "1", ".", " ", "a", " ", "-", " ", "b">>,
    <<" ">>,
    <<>> }

\* every text of 1..n lines
TextsOf(lineSet, n) ==
    { join(ls, NL) : ls \in UNION { [1..k -> lineSet] : k \in 1..n } }

ParserTexts == TextsOf(Lines, MaxLines)

(***************************************************************************)
(* Literals of the program                                                 *)
(***************************************************************************)
BLOCKED == <<"b","l","o","c","k","e","d"," ","b","y"," ",
             "c","o","n","t","e","n","t"," ",
             "f","i","l","t","e","r","i","n","g">>

MOOD_LOWER == <<"m", "o", "o", "d", ":">>
GENRE_LOWER == <<"g", "e", "n", "r", "e", ":">>
MOOD_MARK == <<"M", "o", "o", "d", ":">>
GENRE_MARK == <<"G", "e", "n", "r", "e", ":">>

RETRY_MSG == <<"Oops! Something went wrong. Let's try again!">>
PARSE_ERROR_MSG == <<"I couldn't determine both mood and genre. Try again!">>
NO_PLAYLIST_MSG == <<"Couldn't generate a playlist. Try again!">>
LISTEN_PREFIX == <<"Listen on Spotify: ">>
DEGRADED_MSG == <<"Couldn't create a Spotify playlist, but here are the songs!">>
NLNL == <<"\n", "\n">>

Threads == {1, 2}

NoPreferences == [mood |-> None, genre |-> None]

\* one call to an external collaborator, as the handler issued it
Call(op, args, out) == [op |-> op, args |-> args, out |-> out]

(***************************************************************************)
(* music_assistant_llm, lines 141-153: from the classification text to the *)
(* outcome of the preference extraction                                    *)
(***************************************************************************)
Outcome(kind, m, g) == [kind |-> kind, mood |-> m, genre |-> g]

\* parse_preferences with the filter test made only when a marker is missing
parse_preferences_filter_last(rt) ==
    IF contains(lower(rt), MOOD_LOWER) /\ contains(lower(rt), GENRE_LOWER)
    THEN LET byMood == split(rt, MOOD_MARK)
             byGenre == split(rt, GENRE_MARK) IN
         IF Len(byMood) < 2 \/ Len(byGenre) < 2
         THEN Outcome("parse_error", None, None)
         ELSE LET m == strip(split(byMood[2], GENRE_MARK)[1])
                  g == strip(byGenre[2]) IN
              IF m = <<>> \/ g = <<>>
              THEN Outcome("incomplete", None, None)
              ELSE Outcome("complete", m, g)
    ELSE IF contains(lower(rt), BLOCKED) THEN Outcome("filtered", None, None)
    ELSE Outcome("incomplete", None, None)

\* parse_preferences with `or` for the `and` of line 145
parse_preferences_or(rt) ==
    IF contains(lower(rt), BLOCKED) THEN Outcome("filtered", None, None)
    ELSE IF contains(lower(rt), MOOD_LOWER) \/ contains(lower(rt), GENRE_LOWER)
    THEN LET byMood == split(rt, MOOD_MARK)
             byGenre == split(rt, GENRE_MARK) IN
         IF Len(byMood) < 2 \/ Len(byGenre) < 2
         THEN Outcome("parse_error", None, None)
         ELSE LET m == strip(split(byMood[2], GENRE_MARK)[1])
                  g == strip(byGenre[2]) IN
              IF m = <<>> \/ g = <<>>
              THEN Outcome("incomplete", None, None)
              ELSE Outcome("complete", m, g)
    ELSE Outcome("incomplete", None, None)

parse_preferences(rt) ==
    IF contains(lower(rt), BLOCKED) THEN Outcome("filtered", None, None)
    ELSE IF contains(lower(rt), MOOD_LOWER) /\ contains(lower(rt), GENRE_LOWER)
    THEN LET byMood == split(rt, MOOD_MARK)
             byGenre == split(rt, GENRE_MARK) IN
         IF Len(byMood) < 2 \/ Len(byGenre) < 2
         THEN Outcome("parse_error", None, None)
         ELSE LET m == strip(split(byMood[2], GENRE_MARK)[1])
                  g == strip(byGenre[2]) IN
              IF m = <<>> \/ g = <<>>
              THEN Outcome("incomplete", None, None)
              ELSE Outcome("complete", m, g)
    ELSE Outcome("incomplete", None, None)

(***************************************************************************)
(* search_songs                                                            *)
(***************************************************************************)
SearchOutcomes == {"match", "empty", "error"}

Query(song) == <<"track:">> \o song[1] \o <<" artist:">> \o song[2]

\* tracks[0]["uri"] of the provider's answer to the query for this song
Uri(song) == <<"spotify:track:">> \o song[1] \o <<"/">> \o song[2]

\* search_loop with the try around the whole loop: a failed lookup ends it
RECURSIVE search_loop_abort(_, _, _, _, _)
search_loop_abort(songList, outcomes, i, uris, log) ==
    IF i > Len(songList) THEN [track_uris |-> uris, calls |-> log]
    ELSE IF outcomes[i] = "error"
    THEN [track_uris |-> uris,
          calls |-> Append(log, Call("search", <<Query(songList[i])>>, "error"))]
    ELSE search_loop_abort(songList, outcomes, i + 1,
             IF outcomes[i] = "match" THEN Append(uris, Uri(songList[i]))
             ELSE uris,
             Append(log, Call("search", <<Query(songList[i])>>, outcomes[i])))

\* the loop of search_songs from song i on; outcomes[i] is what sp.search
\* does for song i
RECURSIVE search_loop(_, _, _, _, _)
search_loop(songList, outcomes, i, uris, log) ==
    IF i > Len(songList) THEN [track_uris |-> uris, calls |-> log]
    ELSE search_loop(songList, outcomes, i + 1,
             IF outcomes[i] = "match" THEN Append(uris, Uri(songList[i]))
             ELSE uris,
             Append(log, Call("search", <<Query(songList[i])>>, outcomes[i])))

search_songs(songList, outcomes) ==
    search_loop(songList, outcomes, 1, <<>>, <<>>)

(***************************************************************************)
(* create_spotify_playlist                                                 *)
(***************************************************************************)
PublishOutcomes == [auth : {"ok", "fail"}, create : {"ok", "fail"},
                    add : {"ok", "fail"}]

\* playlist["external_urls"]["spotify"] of the playlist created under name
PlaylistUrl(name) == <<"https://open.spotify.com/playlist/">> \o name

PlaylistName(m, g) == m \o <<" ">> \o g \o <<" Playlist">>

\* create_spotify_playlist without the `if track_uris:` of line 80
create_spotify_playlist_always_adds(name, uris, o) ==
    LET auth == <<Call("auth", <<>>, o.auth)>>
        create == <<Call("create", <<name>>, o.create)>>
        add == <<Call("add_items", uris, o.add)>> IN
    IF o.auth = "fail"
    THEN [raised |-> FALSE, url |-> None, calls |-> auth]
    ELSE IF o.create = "fail"
    THEN [raised |-> FALSE, url |-> None, calls |-> auth \o create]
    ELSE IF o.add = "fail"
    THEN [raised |-> FALSE, url |-> None, calls |-> auth \o create \o add]
    ELSE [raised |-> FALSE, url |-> PlaylistUrl(name),
          calls |-> auth \o create \o add]

create_spotify_playlist(name, uris, o) ==
    LET auth == <<Call("auth", <<>>, o.auth)>>
        create == <<Call("create", <<name>>, o.create)>>
        add == <<Call("add_items", uris, o.add)>> IN
    IF o.auth = "fail"
    THEN [raised |-> FALSE, url |-> None, calls |-> auth]
    ELSE IF o.create = "fail"
    THEN [raised |-> FALSE, url |-> None, calls |-> auth \o create]
    ELSE IF uris # <<>>
    THEN IF o.add = "fail"
         THEN [raised |-> FALSE, url |-> None, calls |-> auth \o create \o add]
         ELSE [raised |-> FALSE, url |-> PlaylistUrl(name),
               calls |-> auth \o create \o add]
    ELSE [raised |-> FALSE, url |-> PlaylistUrl(name), calls |-> auth \o create]

(***************************************************************************)
(* Texts the generation provider may return                                *)
(***************************************************************************)
Sp == <<" ">>
Hval == <<"h">>
Pval == <<"p">>
Sval == <<"s">>
Rval == <<"r">>
BLOCKED_CAPS == <<"B","l","o","c","k","e","d"," ","B","Y"," ",
                  "C","o","n","t","e","n","t"," ",
                  "F","i","l","t","e","r","i","n","g">>

Complete1 == MOOD_MARK \o Sp \o Hval \o NL \o GENRE_MARK \o Sp \o Pval
Complete2 == NL \o MOOD_MARK \o Sp \o Sval \o NL \o GENRE_MARK \o Sp \o Rval \o Sp

ClassTexts == {
    Complete1,
    Complete2,
    MOOD_LOWER \o Sp \o Hval \o NL \o GENRE_LOWER \o Sp \o Pval,
    MOOD_MARK \o Sp \o Hval \o NL \o GENRE_LOWER \o Sp \o Pval,
    MOOD_LOWER \o Sp \o Hval \o NL \o GENRE_MARK \o Sp \o Pval,
    MOOD_MARK \o Sp \o GENRE_MARK \o Sp \o Pval,
    MOOD_MARK \o Sp \o Hval \o NL \o GENRE_MARK,
    MOOD_MARK \o Sp \o Hval,
    GENRE_MARK \o Sp \o Pval,
    Sp \o <<"w", "h", "a", "t", "?">> \o NL,
    <<>>,
    BLOCKED,
    BLOCKED_CAPS \o NL \o Complete1,
    Complete2 \o Sp \o BLOCKED }

ConcClassTexts == {Complete1, Complete2}

PlaylistLines == {
    <<"1", ".", " ", "a", " ", "-", " ", "b">>,
    <<"2", ".", " ", "c", " ", "-", " ", "d">>,
    <<"1", ")", " ", "a", " ", "-", " ", "b">>,
    <<"P", ":">>,
    <<>> }

PlaylistTexts == TextsOf(PlaylistLines, MaxPlaylistLines)

ConcPlaylistTexts == {
    <<"1", ".", " ", "a", " ", "-", " ", "b">>,
    <<"1", ")", " ", "a", " ", "-", " ", "b">> }

(***************************************************************************)
(* The request handler: main and music_assistant_llm, one thread t per     *)
(* request in flight                                                       *)
(***************************************************************************)
Init ==
    /\ session = NoPreferences
    /\ pc = [t \in Threads |-> "idle"]
    /\ response_text = [t \in Threads |-> None]
    /\ mood = [t \in Threads |-> None]
    /\ genre = [t \in Threads |-> None]
    /\ playlist_text = [t \in Threads |-> None]
    /\ songs = [t \in Threads |-> <<>>]
    /\ track_uris = [t \in Threads |-> <<>>]
    /\ spotify_url = [t \in Threads |-> None]
    /\ reply = [t \in Threads |-> None]
    /\ calls = [t \in Threads |-> <<>>]
    /\ pre = [t \in Threads |-> NoPreferences]
    /\ text_arg = <<>>
    /\ ret = [done |-> FALSE, raised |-> FALSE, songs |-> <<>>]

\* main: a message arrives and music_assistant_llm is entered
Receive(t) ==
    /\ pc[t] = "idle"
    /\ pc' = [pc EXCEPT ![t] = "classify"]
    /\ pre' = [pre EXCEPT ![t] = session]
    /\ UNCHANGED <<session, response_text, mood, genre, playlist_text, songs,
                   track_uris, spotify_url, reply, calls, parseVars>>

\* lines 121-153: the classification call and the preference extraction
Classify(t, texts) ==
    /\ pc[t] = "classify"
    /\ \E raw \in texts :
         LET rt == strip(raw)
             p == parse_preferences(rt) IN
         /\ response_text' = [response_text EXCEPT ![t] = rt]
         /\ calls' = [calls EXCEPT ![t] = Append(@, Call("classify", <<>>, "ok"))]
         /\ mood' = [mood EXCEPT ![t] = p.mood]
         /\ genre' = [genre EXCEPT ![t] = p.genre]
         /\ reply' = [reply EXCEPT ![t] =
                CASE p.kind = "filtered" -> RETRY_MSG
                  [] p.kind = "parse_error" -> PARSE_ERROR_MSG
                  [] p.kind = "incomplete" -> rt
                  [] OTHER -> None]
         /\ pc' = [pc EXCEPT ![t] =
                IF p.kind = "complete" THEN "commit_mood" ELSE "done"]
    /\ UNCHANGED <<session, playlist_text, songs, track_uris, spotify_url,
                   pre, parseVars>>

\* line 155
CommitMood(t) ==
    /\ pc[t] = "commit_mood"
    /\ session' = [session EXCEPT !.mood = mood[t]]
    /\ pc' = [pc EXCEPT ![t] = "commit_genre"]
    /\ UNCHANGED <<response_text, mood, genre, playlist_text, songs,
                   track_uris, spotify_url, reply, calls, pre, parseVars>>

\* line 156
CommitGenre(t) ==
    /\ pc[t] = "commit_genre"
    /\ session' = [session EXCEPT !.genre = genre[t]]
    /\ pc' = [pc EXCEPT ![t] = "generate"]
    /\ UNCHANGED <<response_text, mood, genre, playlist_text, songs,
                   track_uris, spotify_url, reply, calls, pre, parseVars>>

\* the arguments of line 158 read back from the shared session
generation_args_from_session(t) == <<session.mood, session.genre>>

\* line 158: generate_playlist(mood, genre) on the locals of the request
generation_args(t) == <<mood[t], genre[t]>>

\* lines 158-160 with generate_playlist: the playlist call, the empty check
\* and extract_songs, whose IndexError nothing catches
GeneratePlaylist(t, texts) ==
    /\ pc[t] = "generate"
    /\ \E raw \in texts :
         LET txt == strip(raw)
             e == extract_songs(txt) IN
         /\ calls' = [calls EXCEPT ![t] =
                Append(@, Call("generate_playlist", generation_args(t), "ok"))]
         /\ playlist_text' = [playlist_text EXCEPT ![t] = txt]
         /\ IF txt = <<>>
            THEN /\ reply' = [reply EXCEPT ![t] = NO_PLAYLIST_MSG]
                 /\ pc' = [pc EXCEPT ![t] = "done"]
                 /\ UNCHANGED songs
            ELSE IF e.raised
            THEN /\ pc' = [pc EXCEPT ![t] = "raised"]
                 /\ UNCHANGED <<reply, songs>>
            ELSE /\ songs' = [songs EXCEPT ![t] = e.songs]
                 /\ pc' = [pc EXCEPT ![t] = "search"]
                 /\ UNCHANGED reply
    /\ UNCHANGED <<session, response_text, mood, genre, track_uris,
                   spotify_url, pre, parseVars>>

\* line 162
SearchSongs(t) ==
    /\ pc[t] = "search"
    /\ \E o \in [1..Len(songs[t]) -> SearchOutcomes] :
         LET r == search_songs(songs[t], o) IN
         /\ track_uris' = [track_uris EXCEPT ![t] = r.track_uris]
         /\ calls' = [calls EXCEPT ![t] = @ \o r.calls]
    /\ pc' = [pc EXCEPT ![t] = "publish"]
    /\ UNCHANGED <<session, response_text, mood, genre, playlist_text, songs,
                   spotify_url, reply, pre, parseVars>>

\* lines 163-168
Publish(t) ==
    /\ pc[t] = "publish"
    /\ \E o \in PublishOutcomes :
         LET r == create_spotify_playlist(PlaylistName(mood[t], genre[t]),
                                          track_uris[t], o) IN
         /\ calls' = [calls EXCEPT ![t] = @ \o r.calls]
         /\ IF r.raised
            THEN /\ pc' = [pc EXCEPT ![t] = "raised"]
                 /\ UNCHANGED <<spotify_url, reply>>
            ELSE /\ spotify_url' = [spotify_url EXCEPT ![t] = r.url]
                 /\ reply' = [reply EXCEPT ![t] =
                        IF r.url # None /\ r.url # <<>>
                        THEN playlist_text[t] \o NLNL \o LISTEN_PREFIX \o r.url
                        ELSE playlist_text[t] \o NLNL \o DEGRADED_MSG]
                 /\ pc' = [pc EXCEPT ![t] = "done"]
    /\ UNCHANGED <<session, response_text, mood, genre, playlist_text, songs,
                   track_uris, pre, parseVars>>

\* the locals of the request are gone once it is answered
EndRequest(t) ==
    /\ pc' = [pc EXCEPT ![t] = "idle"]
    /\ response_text' = [response_text EXCEPT ![t] = None]
    /\ mood' = [mood EXCEPT ![t] = None]
    /\ genre' = [genre EXCEPT ![t] = None]
    /\ playlist_text' = [playlist_text EXCEPT ![t] = None]
    /\ songs' = [songs EXCEPT ![t] = <<>>]
    /\ track_uris' = [track_uris EXCEPT ![t] = <<>>]
    /\ spotify_url' = [spotify_url EXCEPT ![t] = None]
    /\ reply' = [reply EXCEPT ![t] = None]
    /\ calls' = [calls EXCEPT ![t] = <<>>]
    /\ pre' = [pre EXCEPT ![t] = NoPreferences]
    /\ UNCHANGED <<session, parseVars>>

\* line 177: jsonify of the reply
Respond(t) ==
    /\ pc[t] = "done"
    /\ EndRequest(t)

\* an exception left music_assistant_llm: the server answers with an error
\* page and no text reply
RespondError(t) ==
    /\ pc[t] = "raised"
    /\ EndRequest(t)

\* the server handles one request at a time
Next ==
    \E t \in {1} :
        \/ Receive(t)
        \/ Classify(t, ClassTexts)
        \/ CommitMood(t)
        \/ CommitGenre(t)
        \/ GeneratePlaylist(t, PlaylistTexts)
        \/ SearchSongs(t)
        \/ Publish(t)
        \/ Respond(t)
        \/ RespondError(t)

Spec == Init /\ [][Next]_vars

\* the server (app.run, threaded by default) handles two requests at once
NextConc ==
    \E t \in Threads :
        \/ Receive(t)
        \/ Classify(t, ConcClassTexts)
        \/ CommitMood(t)
        \/ CommitGenre(t)
        \/ GeneratePlaylist(t, ConcPlaylistTexts)
        \/ SearchSongs(t)
        \/ Publish(t)
        \/ Respond(t)
        \/ RespondError(t)

SpecConc == Init /\ [][NextConc]_vars

(***************************************************************************)
(* extract_songs on its own                                                *)
(***************************************************************************)
InitParse ==
    /\ session = NoPreferences
    /\ pc = [t \in Threads |-> "idle"]
    /\ response_text = [t \in Threads |-> None]
    /\ mood = [t \in Threads |-> None]
    /\ genre = [t \in Threads |-> None]
    /\ playlist_text = [t \in Threads |-> None]
    /\ songs = [t \in Threads |-> <<>>]
    /\ track_uris = [t \in Threads |-> <<>>]
    /\ spotify_url = [t \in Threads |-> None]
    /\ reply = [t \in Threads |-> None]
    /\ calls = [t \in Threads |-> <<>>]
    /\ pre = [t \in Threads |-> NoPreferences]
    /\ text_arg \in ParserTexts
    /\ ret = [done |-> FALSE, raised |-> FALSE, songs |-> <<>>]

CallExtractSongs ==
    /\ ~ret.done
    /\ LET e == extract_songs(text_arg) IN
       ret' = [done |-> TRUE, raised |-> e.raised, songs |-> e.songs]
    /\ UNCHANGED <<text_arg, handlerVars>>

NextParse == CallExtractSongs

SpecParse == InitParse /\ [][NextParse]_vars

(***************************************************************************)
(* Properties                                                              *)
(***************************************************************************)
HasCall(t, op) == \E i \in 1..Len(calls[t]) : calls[t][i].op = op

CallsOf(t, op) == SelectSeq(calls[t], LAMBDA c : c.op = op)

CallOk(t, op) ==
    \E i \in 1..Len(calls[t]) : calls[t][i].op = op /\ calls[t][i].out = "ok"

OnlyClassified(t) == calls[t] = <<Call("classify", <<>>, "ok")>>

Filtered(t) == contains(lower(response_text[t]), BLOCKED)

BothMarkers(t) ==
    /\ contains(lower(response_text[t]), MOOD_LOWER)
    /\ contains(lower(response_text[t]), GENRE_LOWER)

Answered(t) == pc[t] \in {"done", "raised"}

\* C1: every inbound message, whatever the external calls return, ends in
\* exactly one text reply and no exception leaves music_assistant_llm
C1_AlwaysAnswers ==
    \A t \in Threads :
        /\ pc[t] # "raised"
        /\ pc[t] = "done" => reply[t] # None

\* C2: when the classification gave mood and genre and the playlist text is
\* not empty, the reply is the playlist text followed by exactly one of the
\* share-link line (a URL was returned) and the degraded-mode notice (none was)
C2_PlaylistThenLinkOrNotice ==
    \A t \in Threads :
        (/\ Answered(t)
         /\ mood[t] # None
         /\ playlist_text[t] # None
         /\ playlist_text[t] # <<>>)
        => /\ pc[t] = "done"
           /\ \/ /\ spotify_url[t] # None
                 /\ reply[t] = playlist_text[t] \o NLNL \o LISTEN_PREFIX
                                   \o spotify_url[t]
              \/ /\ spotify_url[t] = None
                 /\ reply[t] = playlist_text[t] \o NLNL \o DEGRADED_MSG

RECURSIVE LeadingDigits(_)
LeadingDigits(line) ==
    IF line # <<>> /\ Head(line) \in Digits
    THEN 1 + LeadingDigits(Tail(line))
    ELSE 0

\* what follows the "<n>. " of a line
AfterOrdinal(line) == SubSeq(line, LeadingDigits(line) + 3, Len(line))

\* a line "<n>. <title> - <artist>" with one " - ", title and artist not empty
WellFormedLine(line) ==
    /\ LeadingDigits(line) >= 1
    /\ MatchAt(line, DOTSP, LeadingDigits(line) + 1)
    /\ Len(split(line, SEP)) = 2
    /\ find(AfterOrdinal(line), SEP) > 1
    /\ find(AfterOrdinal(line), SEP) + Len(SEP) <= Len(AfterOrdinal(line))

\* the (title, artist) of a well-formed line: the title is all that follows
\* the first ". " of the first segment
PairOf(line) ==
    LET rest == AfterOrdinal(line)
        j == find(rest, SEP) IN
    <<strip(SubSeq(rest, 1, j - 1)), strip(SubSeq(rest, j + Len(SEP), Len(rest)))>>

\* C3: on a text whose every line is "<n>. <title> - <artist>", extract_songs
\* returns the (title, artist) pairs of the lines, in line order, the title
\* being everything after the first ". "
C3_WellFormedTextGivesItsPairs ==
    LET lines == split(text_arg, NL) IN
    (ret.done /\ \A i \in 1..Len(lines) : WellFormedLine(lines[i]))
    => /\ ~ret.raised
       /\ ret.songs = [i \in 1..Len(lines) |-> PairOf(lines[i])]

\* a line extract_songs is to keep: leading digit, exactly one " - ", and a
\* ". " in its first segment
KeptLine(line) ==
    /\ line # <<>>
    /\ Head(line) \in Digits
    /\ Len(split(line, SEP)) = 2
    /\ contains(split(line, SEP)[1], DOTSP)

\* C4: extract_songs never raises; lines without a leading digit, without
\* exactly one " - " or without the ". " prefix are skipped and the other
\* lines are still returned
C4_MalformedLinesSkipped ==
    LET lines == split(text_arg, NL) IN
    ret.done
    => /\ ~ret.raised
       /\ Len(ret.songs) = Cardinality({i \in 1..Len(lines) : KeptLine(lines[i])})

\* the text between the two markers and the text after the genre marker,
\* the markers found in any letter case
MoodBetweenMarkers(rt) ==
    strip(SubSeq(rt, find(lower(rt), MOOD_LOWER) + Len(MOOD_LOWER),
                 find(lower(rt), GENRE_LOWER) - 1))

GenreAfterMarker(rt) ==
    strip(SubSeq(rt, find(lower(rt), GENRE_LOWER) + Len(GENRE_LOWER), Len(rt)))

\* C5: a classification text that is not filtered and holds both markers,
\* in any letter case, has its mood and genre extracted, committed into
\* the session and handed to the playlist generation
C5_MarkersInAnyCaseCommit ==
    \A t \in Threads :
        (/\ Answered(t)
         /\ ~Filtered(t)
         /\ BothMarkers(t)
         /\ find(lower(response_text[t]), MOOD_LOWER)
                < find(lower(response_text[t]), GENRE_LOWER)
         /\ MoodBetweenMarkers(response_text[t]) # <<>>
         /\ GenreAfterMarker(response_text[t]) # <<>>)
        => /\ mood[t] = MoodBetweenMarkers(response_text[t])
           /\ genre[t] = GenreAfterMarker(response_text[t])
           /\ session = [mood |-> mood[t], genre |-> genre[t]]
           /\ CallsOf(t, "generate_playlist")
                = <<Call("generate_playlist", <<mood[t], genre[t]>>, "ok")>>

\* C6: a classification text holding "blocked by content filtering" in any
\* letter case gets the fixed retry message, leaves the session preferences
\* as they were and causes no generation, search or publishing call
C6_FilteredGetsRetry ==
    \A t \in Threads :
        (pc[t] \notin {"idle", "classify"} /\ Filtered(t))
        => /\ pc[t] = "done"
           /\ reply[t] = RETRY_MSG
           /\ session = pre[t]
           /\ OnlyClassified(t)

C6_Witness ==
    \E t \in Threads :
        /\ pc[t] = "done"
        /\ Filtered(t)
        /\ ~contains(response_text[t], BLOCKED)
        /\ contains(response_text[t], MOOD_MARK)
        /\ contains(response_text[t], GENRE_MARK)
        /\ session.mood # None
        /\ reply[t] = RETRY_MSG

\* C7: a classification text that is not filtered and lacks the mood marker
\* or the genre marker is itself the reply, the session preferences keep
\* their values and no generation, search or publishing call is made
C7_IncompletePassesThrough ==
    \A t \in Threads :
        (pc[t] \notin {"idle", "classify"} /\ ~Filtered(t) /\ ~BothMarkers(t))
        => /\ pc[t] = "done"
           /\ reply[t] = response_text[t]
           /\ session = pre[t]
           /\ OnlyClassified(t)

C7_Witness ==
    \E t \in Threads :
        /\ pc[t] = "done"
        /\ ~Filtered(t)
        /\ contains(response_text[t], MOOD_MARK)
        /\ ~contains(lower(response_text[t]), GENRE_LOWER)
        /\ session.mood # None
        /\ session.genre # None
        /\ reply[t] = response_text[t]

\* the identifiers of the songs whose search matched, in song order
RECURSIVE ResolvedUris(_, _, _)
ResolvedUris(searches, songList, i) ==
    IF i > Len(songList) THEN <<>>
    ELSE (IF searches[i].out = "match" THEN <<Uri(songList[i])>> ELSE <<>>)
         \o ResolvedUris(searches, songList, i + 1)

\* C8: search_songs issues one search per song in song order, whatever the
\* earlier searches did; the identifiers are those of the songs that
\* matched, in song order, no more than there are songs, and the add-items
\* call gets them in that order
C8_SearchKeepsOrder ==
    \A t \in Threads :
        (pc[t] = "publish" \/ HasCall(t, "auth"))
        => LET searches == CallsOf(t, "search") IN
           /\ Len(searches) = Len(songs[t])
           /\ \A i \in 1..Len(songs[t]) :
                  searches[i].args = <<Query(songs[t][i])>>
           /\ track_uris[t] = ResolvedUris(searches, songs[t], 1)
           /\ Len(track_uris[t]) <= Len(songs[t])
           /\ \A i \in 1..Len(calls[t]) :
                  calls[t][i].op = "add_items"
                  => calls[t][i].args = track_uris[t]

C8_Witness ==
    \E t \in Threads :
        /\ pc[t] = "done"
        /\ Len(songs[t]) = 2
        /\ songs[t][1] # songs[t][2]
        /\ Len(CallsOf(t, "search")) = 2
        /\ CallsOf(t, "search")[1].out = "error"
        /\ CallsOf(t, "search")[2].out = "match"
        /\ track_uris[t] = <<Uri(songs[t][2])>>
        /\ HasCall(t, "add_items")

\* C9: create_spotify_playlist never raises; it returns the link exactly
\* when authentication, creation and, for a non-empty track list, the one
\* add-items call succeed; with no tracks it creates the playlist, makes no
\* add-items call and returns the link
C9_PublishReturnsLinkOrNone ==
    \A t \in Threads :
        HasCall(t, "auth")
        => /\ pc[t] = "done"
           /\ spotify_url[t] # None
                <=> /\ CallOk(t, "auth")
                    /\ CallOk(t, "create")
                    /\ track_uris[t] = <<>> \/ CallOk(t, "add_items")
           /\ spotify_url[t] # None
                => spotify_url[t] = PlaylistUrl(PlaylistName(mood[t], genre[t]))
           /\ track_uris[t] = <<>> => ~HasCall(t, "add_items")
           /\ (track_uris[t] # <<>> /\ CallOk(t, "auth") /\ CallOk(t, "create"))
                => Len(CallsOf(t, "add_items")) = 1
           /\ Len(CallsOf(t, "create")) <= 1

C9_Witness ==
    \E t \in Threads :
        /\ pc[t] = "done"
        /\ songs[t] # <<>>
        /\ track_uris[t] = <<>>
        /\ CallOk(t, "create")
        /\ ~HasCall(t, "add_items")
        /\ spotify_url[t] # None

\* C10: with two messages handled at once, each message's playlist
\* generation and playlist name use the mood and genre that message itself
\* extracted, while the shared session can hold the mood of one message and
\* the genre of the other
C10_OwnMoodAndGenreUsed ==
    \A t \in Threads :
        \A i \in 1..Len(calls[t]) :
            LET p == parse_preferences(response_text[t]) IN
            /\ calls[t][i].op = "generate_playlist"
                 => calls[t][i].args = <<p.mood, p.genre>>
            /\ calls[t][i].op = "create"
                 => calls[t][i].args = <<PlaylistName(p.mood, p.genre)>>

C10_Witness ==
    \E t1 \in Threads : \E t2 \in Threads \ {t1} :
        /\ pc[t1] = "done"
        /\ HasCall(t1, "create")
        /\ pc[t2] \in {"generate", "search", "publish", "done", "raised"}
        /\ session.mood = mood[t1]
        /\ session.genre = genre[t2]
        /\ session.mood # mood[t2]
        /\ session.genre # genre[t1]

====
